---------------------------- MODULE Spec2Model ----------------------------
(***************************************************************************)
(* Model of mypy_django_plugin/transformers/models.py: the eight model     *)
(* class initializers and process_model_class, run by the host analyzer    *)
(* once per model declaration per semantic-analysis pass.                  *)
(*                                                                         *)
(* A TypeInfo is referred to by its fullname, a pair <<module, qualname>>. *)
(* A type is a record tagged by "kind".  A symbol table is a function from *)
(* names to symbols.                                                       *)
(***************************************************************************)
EXTENDS Integers, Sequences, FiniteSets, TLC

VARIABLES
    resolved,       \* fullnames the host can currently look up
    forged,         \* classes added to modules by the plugin: fullname -> TypeInfo
    names,          \* names[d]: symbol table of declaration d (info.names)
    metaAny,        \* metaAny[d]: nested Meta has fallback_to_any set
    errors,         \* diagnostics reported through api.fail, in order
    final,          \* api.final_iteration of the current pass
    pass,           \* number of the current pass
    cur,            \* position in Decls of the declaration being processed
    pc,             \* position in initializers of the next step (9: call returned)
    defers,         \* api.defer() calls made by the current process call
    forges,         \* classes forged by the current process call
    log,            \* steps run by the current process call, with their outcome
    before,         \* names[cur] before the step run last
    prevNames,      \* names at the end of the previous pass
    prevUnresolved  \* fullnames that could not be looked up in the previous pass

vars == <<resolved, forged, names, metaAny, errors, final, pass, cur, pc,
          defers, forges, log, before, prevNames, prevUnresolved>>

-----------------------------------------------------------------------------
(* Bounds of the model *)

MaxPasses == 2

MaxUnresolved == 1

-----------------------------------------------------------------------------
(* Values *)

None == [kind |-> "None"]

AnyType == [kind |-> "Any"]

TypeVarType == [kind |-> "TypeVar"]

Instance(info, args) == [kind |-> "Instance", info |-> info, args |-> args]

TypeInfoRef(fullname) == [kind |-> "TypeInfo", fullname |-> fullname]

Klass(module, name, base0) == [module |-> module, name |-> name, base0 |-> base0]

NoBase == <<"builtins", "object">>

\* helpers.get_class_fullname: module + '.' + qualname
get_class_fullname(klass) == <<klass.module, klass.name>>

\* str.rsplit('.', maxsplit=1)[1] of a fullname
rsplit_last(fullname) == fullname[2]

-----------------------------------------------------------------------------
(* Fullnames (lib/fullnames.py) and the classes of the analysed project *)

MANAGER_CLASS_FULLNAME == <<"django.db.models.manager", "Manager">>

BASE_MANAGER_CLASS_FULLNAME == <<"django.db.models.manager", "BaseManager">>

MANAGER_CLASSES == {MANAGER_CLASS_FULLNAME, BASE_MANAGER_CLASS_FULLNAME}

RELATED_MANAGER_CLASS == <<"django.db.models.manager", "RelatedManager">>

OPTIONS_CLASS_FULLNAME == <<"django.db.models.options", "Options">>

BUILTINS_STR == <<"builtins", "str">>

AutoFieldCls == Klass("django.db.models.fields", "AutoField", NoBase)

UUIDFieldCls == Klass("django.db.models.fields", "UUIDField", NoBase)

ManagerCls == Klass("django.db.models.manager", "Manager", BASE_MANAGER_CLASS_FULLNAME)

MixinFullname == <<"myapp.managers", "Mixin">>

MyManagerCls == Klass("myapp.managers", "MyManager", MixinFullname)

SubManagerCls == Klass("myapp.managers", "SubManager", <<"myapp.managers", "MyManager">>)

PubBaseManagerFullname == <<"myapp.managers", "PubBaseManager">>

\* a manager class made at runtime by PubBaseManager.from_queryset(...)
GeneratedCls == Klass("django.db.models.manager", "PubBaseManagerFromPubQuerySet",
                      PubBaseManagerFullname)

RealManagerFullname == <<"myapp.managers", "RealManager">>

Member(kind, typ, owner, self_type) ==
    [kind |-> kind, type |-> typ, info |-> owner, self_type |-> self_type]

ClassRec(bases, members, metadata) ==
    [bases |-> bases, names |-> members, metadata |-> metadata]

NoMembers == [n \in {} |-> None]

NoMetadata == [n \in {} |-> None]

\* The TypeInfo objects the host holds for the project's classes.
StaticInfo(fullname) ==
    CASE fullname = MANAGER_CLASS_FULLNAME ->
            ClassRec(<<Instance(BASE_MANAGER_CLASS_FULLNAME, <<TypeVarType>>)>>,
                     NoMembers, NoMetadata)
      [] fullname = <<"myapp.managers", "MyManager">> ->
            ClassRec(<<Instance(MixinFullname, <<>>),
                       Instance(MANAGER_CLASS_FULLNAME, <<AnyType>>)>>,
                     [n \in {"active", "use_in_migrations", "Helper"} |->
                        CASE n = "active" ->
                                Member("FuncDef", AnyType, <<"myapp.managers", "MyManager">>,
                                       Instance(<<"myapp.managers", "MyManager">>, <<>>))
                          [] n = "use_in_migrations" ->
                                Member("Var", Instance(<<"builtins", "bool">>, <<>>),
                                       <<"myapp.managers", "MyManager">>, None)
                          [] OTHER ->
                                Member("TypeInfo", None, <<"myapp.managers", "MyManager">>, None)],
                     NoMetadata)
      [] fullname = <<"myapp.managers", "SubManager">> ->
            ClassRec(<<Instance(<<"myapp.managers", "MyManager">>, <<>>)>>,
                     [n \in {"recent"} |->
                        Member("FuncDef", AnyType, <<"myapp.managers", "SubManager">>,
                               Instance(<<"myapp.managers", "SubManager">>, <<>>))],
                     NoMetadata)
      [] fullname = RealManagerFullname ->
            ClassRec(<<Instance(BASE_MANAGER_CLASS_FULLNAME, <<AnyType>>)>>,
                     [n \in {"published"} |->
                        Member("FuncDef", AnyType, RealManagerFullname,
                               Instance(RealManagerFullname, <<>>))],
                     NoMetadata)
      [] fullname = PubBaseManagerFullname ->
            ClassRec(<<Instance(MANAGER_CLASS_FULLNAME, <<AnyType>>)>>, NoMembers,
                     [k \in {"from_queryset_managers"} |->
                        (get_class_fullname(GeneratedCls) :> RealManagerFullname)])
      [] fullname = get_class_fullname(GeneratedCls) ->
            ClassRec(<<Instance(PubBaseManagerFullname, <<>>)>>, NoMembers, NoMetadata)
      [] OTHER -> ClassRec(<<>>, NoMembers, NoMetadata)

\* Every fullname the host can come to resolve.  The class that from_queryset
\* makes at runtime is not among them: no module defines it under that name.
Universe ==
    { get_class_fullname(AutoFieldCls), get_class_fullname(UUIDFieldCls),
      get_class_fullname(ManagerCls), get_class_fullname(MyManagerCls),
      get_class_fullname(SubManagerCls),
      RealManagerFullname, PubBaseManagerFullname,
      <<"myapp.models", "Book">>, <<"myapp.models", "Review">>,
      <<"myapp.models", "Profile">>, <<"myapp.models", "Tag">>,
      RELATED_MANAGER_CLASS, OPTIONS_CLASS_FULLNAME, BUILTINS_STR }

-----------------------------------------------------------------------------
(* The Django runtime models behind the declarations (DjangoContext) *)

Field(name, attname, kind, null, choices, related) ==
    [name |-> name, attname |-> attname, kind |-> kind, null |-> null,
     choices |-> choices, related |-> related]

Manager(name, klass) == [name |-> name, klass |-> klass]

\* relation.get_accessor_name() of a relation without a reverse accessor
NoAccessor == "<None>"

Relation(kind, accessor, related) ==
    [kind |-> kind, accessor |-> accessor, related |-> related]

\* Models that are only referred to: abstract flag, primary key class, class.
RelatedModel(name) ==
    CASE name = "Author"    -> [abstract |-> FALSE, pk |-> AutoFieldCls,
                                klass |-> Klass("myapp.models", "Author", NoBase)]
      [] name = "Publisher" -> [abstract |-> FALSE, pk |-> UUIDFieldCls,
                                klass |-> Klass("myapp.models", "Publisher", NoBase)]
      [] name = "Person"    -> [abstract |-> TRUE, pk |-> AutoFieldCls,
                                klass |-> Klass("myapp.models", "Person", NoBase)]
      [] name = "Book"      -> [abstract |-> FALSE, pk |-> AutoFieldCls,
                                klass |-> Klass("myapp.models", "Book", NoBase)]
      [] name = "Review"    -> [abstract |-> FALSE, pk |-> AutoFieldCls,
                                klass |-> Klass("myapp.models", "Review", NoBase)]
      [] name = "Profile"   -> [abstract |-> FALSE, pk |-> AutoFieldCls,
                                klass |-> Klass("myapp.models", "Profile", NoBase)]
      [] name = "Tag"       -> [abstract |-> FALSE, pk |-> AutoFieldCls,
                                klass |-> Klass("myapp.models", "Tag", NoBase)]
      [] OTHER              -> None

\* The declarations of the analysed module, in the order the host visits them.
Decls == <<"Book", "Author", "Publisher", "Person">>

NDecls == Len(Decls)

ModuleName == "myapp.models"

DeclFullname(d) == <<ModuleName, Decls[d]>>

BookModel ==
    [name |-> "Book",
     auto_field |-> [attname |-> "id", klass |-> AutoFieldCls],
     fields |-> << Field("author", "author_id", "ForeignKey", FALSE, FALSE, "Author"),
                   Field("ghost", "ghost_id", "ForeignKey", FALSE, FALSE, "Missing"),
                   Field("editor", "editor_id", "ForeignKey", TRUE, FALSE, "Person"),
                   Field("publisher", "publisher_id", "ForeignKey", TRUE, FALSE, "Publisher"),
                   Field("genre", "genre", "CharField", FALSE, TRUE, "Missing"),
                   Field("title", "title", "CharField", FALSE, FALSE, "Missing"),
                   Field("published", "published", "DateField", FALSE, FALSE, "Missing"),
                   Field("revised", "revised", "DateTimeField", TRUE, FALSE, "Missing") >>,
     managers_map |-> << Manager("objects", MyManagerCls), Manager("extra", MyManagerCls) >>,
     default_manager |-> MyManagerCls,
     relations |-> << Relation("ManyToOneRel", "review_set", "Review"),
                      Relation("OneToOneRel", "profile", "Profile"),
                      Relation("ManyToOneRel", NoAccessor, "Review"),
                      Relation("ManyToManyRel", "tag_set", "Tag"),
                      Relation("ManyToOneRel", "orphan_set", "Missing") >>]

AuthorModel ==
    [name |-> "Author",
     auto_field |-> [attname |-> "id", klass |-> AutoFieldCls],
     fields |-> << Field("ghost2", "ghost2_id", "ForeignKey", TRUE, FALSE, "Missing"),
                   Field("born", "born", "DateField", TRUE, FALSE, "Missing") >>,
     managers_map |-> << Manager("objects", SubManagerCls), Manager("plain", ManagerCls) >>,
     default_manager |-> SubManagerCls,
     relations |-> << Relation("ManyToOneRel", "book_set", "Book") >>]

PublisherModel ==
    [name |-> "Publisher",
     auto_field |-> None,
     fields |-> << Field("owner", "owner_id", "ForeignKey", FALSE, FALSE, "Author"),
                   Field("phantom", "phantom_id", "ForeignKey", FALSE, FALSE, "Missing") >>,
     managers_map |-> << Manager("objects", GeneratedCls), Manager("people", MyManagerCls) >>,
     default_manager |-> GeneratedCls,
     relations |-> << Relation("ManyToOneRel", "book_set", "Book") >>]

\* django_context.get_model_class_by_fullname
get_model_class_by_fullname(fullname) ==
    CASE fullname = <<ModuleName, "Book">>      -> BookModel
      [] fullname = <<ModuleName, "Author">>    -> AuthorModel
      [] fullname = <<ModuleName, "Publisher">> -> PublisherModel
      [] OTHER                                   -> None

\* django_context.get_field_related_model_cls
get_field_related_model_cls(field) == RelatedModel(field.related)

\* django_context.get_primary_key_field(model_cls).__class__
get_primary_key_field(model_cls) == model_cls.pk

\* django_context.get_field_nullability(field, None)
get_field_nullability(field) == field.null

\* fields.get_field_descriptor_types(field_info, is_nullable): (set_type, get_type)
get_field_descriptor_types(field_info, is_nullable) ==
    << [kind |-> "Descriptor", role |-> "set", of |-> field_info.fullname,
        nullable |-> is_nullable],
       [kind |-> "Descriptor", role |-> "get", of |-> field_info.fullname,
        nullable |-> is_nullable] >>

-----------------------------------------------------------------------------
(* The declarations as written in the source *)

Symbol(typ, node) == [type |-> typ, node |-> node]

Declared(node) == Symbol([kind |-> "Declared"], node)

\* info.names of each declaration before any plugin pass
SourceNames(d) ==
    CASE Decls[d] = "Book" ->
            [n \in {"author", "ghost", "editor", "publisher", "genre", "title",
                    "published", "revised", "extra"} |-> Declared("Var")]
      [] Decls[d] = "Author" ->
            [n \in {"id", "born", "objects", "plain"} |-> Declared("Var")]
      [] Decls[d] = "Publisher" ->
            [n \in {"uuid", "owner", "phantom", "objects", "people"} |->
                IF n = "phantom" THEN Declared("None") ELSE Declared("Var")]
      [] OTHER ->
            [n \in {"name"} |-> Declared("Var")]

\* names a declaration inherits through its MRO
InheritedNames(d) ==
    CASE Decls[d] = "Book" -> [n \in {"objects", "pk"} |-> Declared("Var")]
      [] OTHER             -> [n \in {"pk"} |-> Declared("Var")]

\* helpers.get_nested_meta_node_for_current_class(info) is not None
HasNestedMeta(d) == Decls[d] \in {"Book", "Person"}

\* TypeInfo.get(name): the symbol found along the MRO, or None
Get(d, tbl, name) ==
    IF name \in DOMAIN tbl THEN tbl[name]
    ELSE IF name \in DOMAIN InheritedNames(d) THEN InheritedNames(d)[name]
    ELSE None

\* TypeInfo.has_readable_member(name)
has_readable_member(d, tbl, name) == Get(d, tbl, name) # None

-----------------------------------------------------------------------------
(* ModelClassInitializer: what every step shares.                          *)
(* A step works on st = [tbl, forged, errors, raised, missed, made,         *)
(* overwrote]: the declaration's symbol table, the forged classes, the     *)
(* diagnostics, whether IncompleteDefnException is propagating out of the  *)
(* step, whether the step met a type it could not resolve (raised inside   *)
(* it or not), the number of classes the step has forged, and the names    *)
(* add_new_node_to_model_class was called with while they were in the     *)
(* table.                                                                  *)

Start(tbl, fg, errs) ==
    [tbl |-> tbl, forged |-> fg, errors |-> errs, raised |-> FALSE, missed |-> FALSE,
     made |-> 0, overwrote |-> {}]

\* a lookup found nothing, or IncompleteDefnException was caught inside the step
Miss(st) == [st EXCEPT !.missed = TRUE]

\* IncompleteDefnException leaves the step
Raise(st) == [st EXCEPT !.raised = TRUE, !.missed = TRUE]

\* the TypeInfo registered under a fullname
InfoRec(fg, fullname) ==
    IF fullname \in DOMAIN fg THEN fg[fullname] ELSE StaticInfo(fullname)

\* lookup_typeinfo: helpers.lookup_fully_qualified_typeinfo(api, fullname)
lookup_typeinfo(fg, fullname) ==
    IF fullname \in resolved \/ fullname \in DOMAIN fg
    THEN TypeInfoRef(fullname) ELSE None

\* lookup_typeinfo_or_incomplete_defn_error raises exactly when this holds
lookup_fails(fg, fullname) == lookup_typeinfo(fg, fullname) = None

\* Instance(self.model_classdef.info, [])
ModelInstance(d) == Instance(DeclFullname(d), <<>>)

\* helpers.add_new_sym_for_info(info, name=name, sym_type=typ)
add_new_sym_for_info(tbl, name, typ) == (name :> Symbol(typ, "Var")) @@ tbl

add_new_node_to_model_class(st, name, typ) ==
    [st EXCEPT !.tbl = add_new_sym_for_info(st.tbl, name, typ),
               !.overwrote = IF name \in DOMAIN st.tbl THEN @ \cup {name} ELSE @]

\* mypy.plugins.common.add_method(ctx, name, args, return_type)
add_method(st, name, args, return_type) ==
    [st EXCEPT !.tbl = (name :> Symbol([kind |-> "Callable", args |-> args,
                                        ret |-> return_type], "FuncDef")) @@ st.tbl]

-----------------------------------------------------------------------------
(* AddDefaultPrimaryKey *)

\* mutant: the descriptor types are asked for a nullable field
AddDefaultPrimaryKey_run_nullable(d, model_cls, st) ==
    LET auto_field == model_cls.auto_field IN
    IF auto_field # None /\ ~has_readable_member(d, st.tbl, auto_field.attname)
    THEN LET auto_field_fullname == get_class_fullname(auto_field.klass)
             auto_field_info == lookup_typeinfo(st.forged, auto_field_fullname)
         IN  IF lookup_fails(st.forged, auto_field_fullname) THEN Raise(st)
             ELSE LET sg == get_field_descriptor_types(auto_field_info, TRUE)
                  IN  add_new_node_to_model_class(st, auto_field.attname,
                          Instance(auto_field_info.fullname, <<sg[1], sg[2]>>))
    ELSE st

AddDefaultPrimaryKey_run(d, model_cls, st) ==
    LET auto_field == model_cls.auto_field IN
    IF auto_field # None /\ ~has_readable_member(d, st.tbl, auto_field.attname)
    THEN LET auto_field_fullname == get_class_fullname(auto_field.klass)
             auto_field_info == lookup_typeinfo(st.forged, auto_field_fullname)
         IN  IF lookup_fails(st.forged, auto_field_fullname) THEN Raise(st)
             ELSE LET sg == get_field_descriptor_types(auto_field_info, FALSE)
                  IN  add_new_node_to_model_class(st, auto_field.attname,
                          Instance(auto_field_info.fullname, <<sg[1], sg[2]>>))
    ELSE st

-----------------------------------------------------------------------------
(* AddRelatedModelsId *)

\* mutant: the diagnostic is always attached to the class
error_context_class(d, tbl, field) == "<class>"

\* the Context the diagnostic is attached to
error_context(d, tbl, field) ==
    LET field_sym == Get(d, tbl, field.name) IN
    IF field_sym # None /\ field_sym.node # "None" THEN field.name ELSE "<class>"

Fail(st, d, field) ==
    [st EXCEPT !.errors = Append(@, [decl |-> Decls[d], field |-> field.name,
                                     ctx |-> error_context(d, st.tbl, field),
                                     pass |-> pass])]

\* mutant: the exception is raised again in the final pass too
AddRelatedModelsId_field_raise_always(d, field, st) ==
    IF field.kind # "ForeignKey" THEN st
    ELSE LET related_model_cls == get_field_related_model_cls(field) IN
         IF related_model_cls = None
         THEN add_new_node_to_model_class(Fail(st, d, field), field.attname, AnyType)
         ELSE IF related_model_cls.abstract THEN st
         ELSE LET fullname == get_class_fullname(get_primary_key_field(related_model_cls))
                  field_info == lookup_typeinfo(st.forged, fullname)
              IN  IF lookup_fails(st.forged, fullname)
                  THEN Raise(st)
                  ELSE LET sg == get_field_descriptor_types(field_info,
                                     get_field_nullability(field))
                       IN  add_new_node_to_model_class(st, field.attname,
                               Instance(field_info.fullname, <<sg[1], sg[2]>>))

\* mutant: the descriptor types are asked for with the nullability of the
\* related model's identity field, which is never nullable
AddRelatedModelsId_field_pk_nullability(d, field, st) ==
    IF field.kind # "ForeignKey" THEN st
    ELSE LET related_model_cls == get_field_related_model_cls(field) IN
         IF related_model_cls = None
         THEN add_new_node_to_model_class(Fail(st, d, field), field.attname, AnyType)
         ELSE IF related_model_cls.abstract THEN st
         ELSE LET fullname == get_class_fullname(get_primary_key_field(related_model_cls))
                  field_info == lookup_typeinfo(st.forged, fullname)
              IN  IF lookup_fails(st.forged, fullname)
                  THEN IF ~final THEN Raise(st) ELSE Miss(st)
                  ELSE LET sg == get_field_descriptor_types(field_info, FALSE)
                       IN  add_new_node_to_model_class(st, field.attname,
                               Instance(field_info.fullname, <<sg[1], sg[2]>>))

\* the body of the loop, for one field
AddRelatedModelsId_field(d, field, st) ==
    IF field.kind # "ForeignKey" THEN st
    ELSE LET related_model_cls == get_field_related_model_cls(field) IN
         IF related_model_cls = None
         THEN add_new_node_to_model_class(Fail(st, d, field), field.attname, AnyType)
         ELSE IF related_model_cls.abstract THEN st
         ELSE LET fullname == get_class_fullname(get_primary_key_field(related_model_cls))
                  field_info == lookup_typeinfo(st.forged, fullname)
              IN  IF lookup_fails(st.forged, fullname)
                  THEN IF ~final THEN Raise(st) ELSE Miss(st)
                  ELSE LET sg == get_field_descriptor_types(field_info,
                                     get_field_nullability(field))
                       IN  add_new_node_to_model_class(st, field.attname,
                               Instance(field_info.fullname, <<sg[1], sg[2]>>))

RECURSIVE AddRelatedModelsId_loop(_, _, _, _)
AddRelatedModelsId_loop(d, fields, i, st) ==
    IF st.raised \/ i > Len(fields) THEN st
    ELSE AddRelatedModelsId_loop(d, fields, i + 1,
                                 AddRelatedModelsId_field(d, fields[i], st))

AddRelatedModelsId_run(d, model_cls, st) ==
    AddRelatedModelsId_loop(d, model_cls.fields, 1, st)

-----------------------------------------------------------------------------
(* AddManagers *)

\* an Instance whose .type is None
NoTypeInfo == <<>>

is_any_parametrized_manager(typ) ==
    typ.info \in MANAGER_CLASSES /\ typ.args[1] = AnyType

\* helpers.iter_bases(info): the bases of info and, recursively, of each base
RECURSIVE iter_bases(_, _)
iter_bases(fg, fullname) ==
    LET bases == InfoRec(fg, fullname).bases IN
    UNION { {bases[i]} \cup iter_bases(fg, bases[i].info) : i \in 1..Len(bases) }

has_any_parametrized_manager_as_base(fg, info) ==
    \E base \in iter_bases(fg, info.fullname) : is_any_parametrized_manager(base)

get_generated_manager_mappings(fg, base_manager_fullname) ==
    LET base_manager_info == lookup_typeinfo(fg, base_manager_fullname) IN
    IF base_manager_info = None
       \/ "from_queryset_managers" \notin
              DOMAIN InfoRec(fg, base_manager_fullname).metadata
    THEN <<>>
    ELSE InfoRec(fg, base_manager_fullname).metadata["from_queryset_managers"]

\* helpers.reparametrize_instance(instance, new_args)
reparametrize_instance(instance, new_args) == Instance(instance.info, new_args)

\* helpers.add_new_class_for_module(module, name=name, bases=bases)
add_new_class_for_module(fg, module, name, bases) ==
    (<<module, name>> :> ClassRec(bases, NoMembers, NoMetadata)) @@ fg

\* helpers.copy_method_to_another_class(ctx, self_type, new_method_name, method_node)
copy_method_to_another_class(owner, self_type, method_node) ==
    Member("FuncDef", method_node.type, owner, self_type)

\* the first loop of create_new_model_parametrized_manager: the new bases
forged_bases(d, original_bases) ==
    [i \in 1..Len(original_bases) |->
        IF is_any_parametrized_manager(original_bases[i])
        THEN reparametrize_instance(original_bases[i], <<ModelInstance(d)>>)
        ELSE original_bases[i]]

\* that loop raises IncompleteDefnException exactly when this holds
forged_bases_raise(original_bases) ==
    \E i \in 1..Len(original_bases) :
        /\ is_any_parametrized_manager(original_bases[i])
        /\ original_bases[i].info = NoTypeInfo

\* mutant: only the methods are copied
copied_members_methods_only(template_names, custom_manager_fullname, custom_manager_type) ==
    [name \in {n \in DOMAIN template_names : template_names[n].kind = "FuncDef"} |->
        copy_method_to_another_class(custom_manager_fullname, custom_manager_type,
                                     template_names[name])]

\* the second loop of create_new_model_parametrized_manager: the copied members
copied_members(template_names, custom_manager_fullname, custom_manager_type) ==
    [name \in DOMAIN template_names |->
        LET sym == template_names[name] IN
        IF sym.kind = "FuncDef"
        THEN copy_method_to_another_class(custom_manager_fullname,
                                          custom_manager_type, sym)
        ELSE IF sym.kind = "Var"
        THEN Member("Var", sym.type, custom_manager_fullname, sym.self_type)
        ELSE sym]

\* returns [raised, forged, type]
create_new_model_parametrized_manager(d, fg, name, base_manager_info) ==
    LET template == InfoRec(fg, base_manager_info.fullname)
        custom_manager_fullname == <<ModuleName, name>>
        custom_manager_type == Instance(custom_manager_fullname, <<ModelInstance(d)>>)
    IN  IF forged_bases_raise(template.bases)
        THEN [raised |-> TRUE, forged |-> fg, type |-> None]
        ELSE LET fg1 == add_new_class_for_module(fg, ModuleName, name,
                                                 forged_bases(d, template.bases))
             IN  [raised |-> FALSE,
                  forged |-> [fg1 EXCEPT ![custom_manager_fullname].names =
                                 copied_members(template.names, custom_manager_fullname,
                                                custom_manager_type)],
                  type |-> custom_manager_type]

\* mutant: the two names are joined the other way round
custom_model_manager_name_swapped(model_name, manager_class_name) ==
    manager_class_name \o "_" \o model_name

\* manager.model.__name__ + '_' + manager_class_name
custom_model_manager_name(model_name, manager_class_name) ==
    model_name \o "_" \o manager_class_name

\* lines 216-231: the manager's type is known
AddManagers_synthesize(d, model_cls, manager, manager_info, manager_class_name, st) ==
    IF manager.name \notin DOMAIN st.tbl
    THEN add_new_node_to_model_class(st, manager.name,
             Instance(manager_info.fullname, <<ModelInstance(d)>>))
    ELSE IF ~has_any_parametrized_manager_as_base(st.forged, manager_info) THEN st
    ELSE LET r == create_new_model_parametrized_manager(d, st.forged,
                      custom_model_manager_name(model_cls.name, manager_class_name),
                      manager_info)
         IN  IF r.raised THEN Miss(st)
             ELSE add_new_node_to_model_class([st EXCEPT !.forged = r.forged,
                                                         !.made = @ + 1],
                                              manager.name, r.type)

\* mutant: in the final pass an unresolved manager is skipped without the
\* lookup by the name of the real template
AddManagers_manager_no_alternate(d, model_cls, manager, st) ==
    LET manager_fullname == get_class_fullname(manager.klass) IN
    IF ~lookup_fails(st.forged, manager_fullname)
    THEN AddManagers_synthesize(d, model_cls, manager,
                                lookup_typeinfo(st.forged, manager_fullname),
                                manager.klass.name, st)
    ELSE IF ~final THEN Raise(st)
    ELSE Miss(st)

\* the body of the loop, for one manager
AddManagers_manager(d, model_cls, manager, st) ==
    LET manager_fullname == get_class_fullname(manager.klass) IN
    IF ~lookup_fails(st.forged, manager_fullname)
    THEN AddManagers_synthesize(d, model_cls, manager,
                                lookup_typeinfo(st.forged, manager_fullname),
                                manager.klass.name, st)
    ELSE IF ~final THEN Raise(st)
    ELSE LET generated_managers ==
                 get_generated_manager_mappings(st.forged, manager.klass.base0)
         IN  IF manager_fullname \notin DOMAIN generated_managers THEN Miss(st)
             ELSE LET real_manager_fullname == generated_managers[manager_fullname]
                      manager_info == lookup_typeinfo(st.forged, real_manager_fullname)
                  IN  IF manager_info = None THEN Miss(st)
                      ELSE AddManagers_synthesize(d, model_cls, manager, manager_info,
                                                  rsplit_last(real_manager_fullname),
                                                  Miss(st))

RECURSIVE AddManagers_loop(_, _, _, _)
AddManagers_loop(d, model_cls, i, st) ==
    IF st.raised \/ i > Len(model_cls.managers_map) THEN st
    ELSE AddManagers_loop(d, model_cls, i + 1,
                          AddManagers_manager(d, model_cls, model_cls.managers_map[i], st))

AddManagers_run(d, model_cls, st) == AddManagers_loop(d, model_cls, 1, st)

-----------------------------------------------------------------------------
(* AddDefaultManagerAttribute *)

AddDefaultManagerAttribute_run(d, model_cls, st) ==
    IF "_default_manager" \notin DOMAIN st.tbl
    THEN LET default_manager_fullname == get_class_fullname(model_cls.default_manager)
         IN  IF lookup_fails(st.forged, default_manager_fullname) THEN Raise(st)
             ELSE add_new_node_to_model_class(st, "_default_manager",
                      Instance(default_manager_fullname, <<ModelInstance(d)>>))
    ELSE st

-----------------------------------------------------------------------------
(* AddRelatedManagers *)

\* mutant: the test for a many-to-one relation comes first and, OneToOneRel
\* being a subclass of ManyToOneRel, takes the one-to-one relations too
AddRelatedManagers_relation_manager_first(d, relation, st) ==
    LET attname == relation.accessor
        related_model_cls == get_field_related_model_cls(relation)
    IN  IF attname = NoAccessor THEN st
        ELSE IF related_model_cls = None THEN st
        ELSE LET related_fullname == get_class_fullname(related_model_cls.klass) IN
             IF lookup_fails(st.forged, related_fullname)
             THEN IF ~final THEN Raise(st) ELSE Miss(st)
             ELSE IF relation.kind \in {"OneToOneRel", "ManyToOneRel", "ManyToManyRel"}
             THEN IF lookup_fails(st.forged, RELATED_MANAGER_CLASS)
                  THEN IF ~final THEN Raise(st) ELSE Miss(st)
                  ELSE add_new_node_to_model_class(st, attname,
                           Instance(RELATED_MANAGER_CLASS,
                                    <<Instance(related_fullname, <<>>)>>))
             ELSE st

AddRelatedManagers_relation(d, relation, st) ==
    LET attname == relation.accessor
        related_model_cls == get_field_related_model_cls(relation)
    IN  IF attname = NoAccessor THEN st
        ELSE IF related_model_cls = None THEN st
        ELSE LET related_fullname == get_class_fullname(related_model_cls.klass) IN
             IF lookup_fails(st.forged, related_fullname)
             THEN IF ~final THEN Raise(st) ELSE Miss(st)
             ELSE IF relation.kind = "OneToOneRel"
             THEN add_new_node_to_model_class(st, attname, Instance(related_fullname, <<>>))
             ELSE IF relation.kind \in {"ManyToOneRel", "ManyToManyRel"}
             THEN IF lookup_fails(st.forged, RELATED_MANAGER_CLASS)
                  THEN IF ~final THEN Raise(st) ELSE Miss(st)
                  ELSE add_new_node_to_model_class(st, attname,
                           Instance(RELATED_MANAGER_CLASS,
                                    <<Instance(related_fullname, <<>>)>>))
             ELSE st

RECURSIVE AddRelatedManagers_loop(_, _, _, _)
AddRelatedManagers_loop(d, relations, i, st) ==
    IF st.raised \/ i > Len(relations) THEN st
    ELSE AddRelatedManagers_loop(d, relations, i + 1,
                                 AddRelatedManagers_relation(d, relations[i], st))

AddRelatedManagers_run(d, model_cls, st) ==
    AddRelatedManagers_loop(d, model_cls.relations, 1, st)

-----------------------------------------------------------------------------
(* AddExtraFieldMethods *)

\* Argument(Var('kwargs', Any), Any, initializer=None, kind=ARG_STAR2)
KwargsArgument == [name |-> "kwargs", type |-> AnyType, kind |-> "ARG_STAR2"]

RECURSIVE AddExtraFieldMethods_display(_, _, _)
AddExtraFieldMethods_display(fields, i, st) ==
    IF st.raised \/ i > Len(fields) THEN st
    ELSE AddExtraFieldMethods_display(fields, i + 1,
            IF fields[i].choices
            THEN IF lookup_fails(st.forged, BUILTINS_STR) THEN Raise(st)
                 ELSE add_method(st, "get_" \o fields[i].attname \o "_display", <<>>,
                                 Instance(BUILTINS_STR, <<>>))
            ELSE st)

RECURSIVE AddExtraFieldMethods_dates(_, _, _, _)
AddExtraFieldMethods_dates(d, fields, i, st) ==
    IF st.raised \/ i > Len(fields) THEN st
    ELSE AddExtraFieldMethods_dates(d, fields, i + 1,
            IF fields[i].kind \in {"DateField", "DateTimeField"} /\ ~fields[i].null
            THEN add_method(
                     add_method(st, "get_next_by_" \o fields[i].attname,
                                <<KwargsArgument>>, ModelInstance(d)),
                     "get_previous_by_" \o fields[i].attname,
                     <<KwargsArgument>>, ModelInstance(d))
            ELSE st)

\* mutant: the second loop, over the date fields, is left out
AddExtraFieldMethods_run_display_only(d, model_cls, st) ==
    AddExtraFieldMethods_display(model_cls.fields, 1, st)

AddExtraFieldMethods_run(d, model_cls, st) ==
    AddExtraFieldMethods_dates(d, model_cls.fields, 1,
        AddExtraFieldMethods_display(model_cls.fields, 1, st))

-----------------------------------------------------------------------------
(* AddMetaOptionsAttribute *)

\* mutant: the attribute is added without looking for it in the table first
AddMetaOptionsAttribute_run_unchecked(d, model_cls, st) ==
    IF lookup_fails(st.forged, OPTIONS_CLASS_FULLNAME) THEN Raise(st)
    ELSE add_new_node_to_model_class(st, "_meta",
             Instance(OPTIONS_CLASS_FULLNAME, <<ModelInstance(d)>>))

AddMetaOptionsAttribute_run(d, model_cls, st) ==
    IF "_meta" \notin DOMAIN st.tbl
    THEN IF lookup_fails(st.forged, OPTIONS_CLASS_FULLNAME) THEN Raise(st)
         ELSE add_new_node_to_model_class(st, "_meta",
                  Instance(OPTIONS_CLASS_FULLNAME, <<ModelInstance(d)>>))
    ELSE st

-----------------------------------------------------------------------------
(* ModelClassInitializer.run and InjectAnyAsBaseForNestedMeta.run *)

\* run_with_model_cls of each initializer class
run_with_model_cls(initializer_cls, d, model_cls, st) ==
    CASE initializer_cls = "AddDefaultPrimaryKey" ->
            AddDefaultPrimaryKey_run(d, model_cls, st)
      [] initializer_cls = "AddRelatedModelsId" ->
            AddRelatedModelsId_run(d, model_cls, st)
      [] initializer_cls = "AddManagers" ->
            AddManagers_run(d, model_cls, st)
      [] initializer_cls = "AddDefaultManagerAttribute" ->
            AddDefaultManagerAttribute_run(d, model_cls, st)
      [] initializer_cls = "AddRelatedManagers" ->
            AddRelatedManagers_run(d, model_cls, st)
      [] initializer_cls = "AddExtraFieldMethods" ->
            AddExtraFieldMethods_run(d, model_cls, st)
      [] initializer_cls = "AddMetaOptionsAttribute" ->
            AddMetaOptionsAttribute_run(d, model_cls, st)
      [] OTHER -> st

\* mutant: a declaration without a model is taken for one not yet resolved
run_raise_without_model(initializer_cls, d, st) ==
    LET model_cls == get_model_class_by_fullname(DeclFullname(d)) IN
    IF model_cls = None THEN Raise(st)
    ELSE run_with_model_cls(initializer_cls, d, model_cls, st)

\* ModelClassInitializer.run
run(initializer_cls, d, st) ==
    LET model_cls == get_model_class_by_fullname(DeclFullname(d)) IN
    IF model_cls = None THEN st
    ELSE run_with_model_cls(initializer_cls, d, model_cls, st)

\* InjectAnyAsBaseForNestedMeta.run: the new value of fallback_to_any
InjectAnyAsBaseForNestedMeta_run(d, fallback_to_any) ==
    IF ~HasNestedMeta(d) THEN fallback_to_any ELSE TRUE

-----------------------------------------------------------------------------
(* process_model_class *)

initializers ==
    << "InjectAnyAsBaseForNestedMeta",
       "AddDefaultPrimaryKey",
       "AddRelatedModelsId",
       "AddManagers",
       "AddDefaultManagerAttribute",
       "AddRelatedManagers",
       "AddExtraFieldMethods",
       "AddMetaOptionsAttribute" >>

Done == Len(initializers) + 1

\* mutant: the exception is swallowed without asking for another pass
handle_incomplete_defn_silent(raised, final_iteration, deferred) == deferred

\* mutant: another pass is asked for in the final pass too
handle_incomplete_defn_always(raised, final_iteration, deferred) ==
    IF raised THEN deferred + 1 ELSE deferred

\* the except clause: the number of api.defer() calls after a step
handle_incomplete_defn(raised, final_iteration, deferred) ==
    IF raised /\ ~final_iteration THEN deferred + 1 ELSE deferred

\* mutant: the exception ends the loop
next_initializer_abort(i, raised) == IF raised THEN Len(initializers) + 1 ELSE i + 1

\* the loop goes on to the next initializer whatever the step did
next_initializer(i, raised) == i + 1

\* one iteration of the loop, for a step that goes through ModelClassInitializer.run
Step(initializer_cls) ==
    /\ pc \in 1..Len(initializers)
    /\ initializers[pc] = initializer_cls
    /\ LET st == run(initializer_cls, cur, Start(names[cur], forged, errors)) IN
       /\ names' = [names EXCEPT ![cur] = st.tbl]
       /\ forged' = st.forged
       /\ errors' = st.errors
       /\ defers' = handle_incomplete_defn(st.raised, final, defers)
       /\ forges' = forges + st.made
       /\ log' = Append(log, [step |-> initializer_cls, raised |-> st.raised,
                               missed |-> st.missed, overwrote |-> st.overwrote])
       /\ pc' = next_initializer(pc, st.raised)
    /\ before' = names[cur]
    /\ UNCHANGED <<resolved, metaAny, final, pass, cur, prevNames, prevUnresolved>>

InjectAnyAsBaseForNestedMeta ==
    /\ pc \in 1..Len(initializers)
    /\ initializers[pc] = "InjectAnyAsBaseForNestedMeta"
    /\ metaAny' = [metaAny EXCEPT ![cur] = InjectAnyAsBaseForNestedMeta_run(cur, @)]
    /\ defers' = handle_incomplete_defn(FALSE, final, defers)
    /\ log' = Append(log, [step |-> "InjectAnyAsBaseForNestedMeta", raised |-> FALSE,
                            missed |-> FALSE, overwrote |-> {}])
    /\ pc' = next_initializer(pc, FALSE)
    /\ before' = names[cur]
    /\ UNCHANGED <<resolved, forged, names, errors, final, pass, cur, forges,
                   prevNames, prevUnresolved>>

AddDefaultPrimaryKey == Step("AddDefaultPrimaryKey")

AddRelatedModelsId == Step("AddRelatedModelsId")

AddManagers == Step("AddManagers")

AddDefaultManagerAttribute == Step("AddDefaultManagerAttribute")

AddRelatedManagers == Step("AddRelatedManagers")

AddExtraFieldMethods == Step("AddExtraFieldMethods")

AddMetaOptionsAttribute == Step("AddMetaOptionsAttribute")

-----------------------------------------------------------------------------
(* The host analyzer *)

\* the host calls process_model_class for the next declaration of the pass
ProcessNextDeclaration ==
    /\ pc = Done
    /\ cur < NDecls
    /\ cur' = cur + 1
    /\ pc' = 1
    /\ defers' = 0
    /\ forges' = 0
    /\ log' = <<>>
    /\ before' = names[cur + 1]
    /\ UNCHANGED <<resolved, forged, names, metaAny, errors, final, pass,
                   prevNames, prevUnresolved>>

\* the host starts another pass, having resolved some more names
NextPass ==
    /\ pc = Done
    /\ cur = NDecls
    /\ ~final
    /\ pass < MaxPasses
    /\ \E more \in SUBSET (Universe \ resolved), fin \in BOOLEAN :
          /\ resolved' = resolved \cup more
          /\ final' = fin
    /\ pass' = pass + 1
    /\ cur' = 1
    /\ pc' = 1
    /\ defers' = 0
    /\ forges' = 0
    /\ log' = <<>>
    /\ before' = names[1]
    /\ prevNames' = names
    /\ prevUnresolved' = Universe \ resolved
    /\ UNCHANGED <<forged, names, metaAny, errors>>

Init ==
    /\ \E unresolved \in SUBSET Universe :
          /\ Cardinality(unresolved) <= MaxUnresolved
          /\ resolved = Universe \ unresolved
    /\ forged = <<>>
    /\ names = [d \in 1..NDecls |-> SourceNames(d)]
    /\ metaAny = [d \in 1..NDecls |-> FALSE]
    /\ errors = <<>>
    /\ final \in BOOLEAN
    /\ pass = 1
    /\ cur = 1
    /\ pc = 1
    /\ defers = 0
    /\ forges = 0
    /\ log = <<>>
    /\ before = SourceNames(1)
    /\ prevNames = [d \in 1..NDecls |-> SourceNames(d)]
    /\ prevUnresolved = Universe

Next ==
    \/ InjectAnyAsBaseForNestedMeta
    \/ AddDefaultPrimaryKey
    \/ AddRelatedModelsId
    \/ AddManagers
    \/ AddDefaultManagerAttribute
    \/ AddRelatedManagers
    \/ AddExtraFieldMethods
    \/ AddMetaOptionsAttribute
    \/ ProcessNextDeclaration
    \/ NextPass

Spec == Init /\ [][Next]_vars

-----------------------------------------------------------------------------
(* What the properties below talk about *)

ModelOf(d) == get_model_class_by_fullname(DeclFullname(d))

CurModel == ModelOf(cur)

Indexes(seq) == 1..Len(seq)

\* positions of the foreign keys of a model whose related model does not exist
MissingForeignKeys(model) ==
    { i \in Indexes(model.fields) :
        /\ model.fields[i].kind = "ForeignKey"
        /\ get_field_related_model_cls(model.fields[i]) = None }

\* positions of the foreign keys of a model whose related model is concrete
ConcreteForeignKeys(model) ==
    { i \in Indexes(model.fields) :
        /\ model.fields[i].kind = "ForeignKey"
        /\ get_field_related_model_cls(model.fields[i]) # None
        /\ ~get_field_related_model_cls(model.fields[i]).abstract }

RelatedPkFullname(field) ==
    get_class_fullname(get_primary_key_field(get_field_related_model_cls(field)))

\* diagnostics reported for a field of a declaration, in one pass or in all
ErrorsInPass(declName, fieldName, p) ==
    { i \in Indexes(errors) : /\ errors[i].decl = declName
                              /\ errors[i].field = fieldName
                              /\ errors[i].pass = p }

ErrorsInRun(declName, fieldName) ==
    { i \in Indexes(errors) : errors[i].decl = declName /\ errors[i].field = fieldName }

\* the name was put into the table by the plugin, or retyped by it
Synthesized(d, name) ==
    /\ name \in DOMAIN names[d]
    /\ name \in DOMAIN SourceNames(d) => names[d][name] # SourceNames(d)[name]

\* the template the Managers step can find for a manager now: its own class,
\* or in the final pass the real class its generated class is mapped to
TemplateOf(manager) ==
    LET fullname == get_class_fullname(manager.klass)
        base == manager.klass.base0
        mapping == IF base \in resolved /\ "from_queryset_managers" \in
                                              DOMAIN StaticInfo(base).metadata
                   THEN StaticInfo(base).metadata["from_queryset_managers"]
                   ELSE <<>>
    IN  IF fullname \in resolved THEN fullname
        ELSE IF final /\ fullname \in DOMAIN mapping /\ mapping[fullname] \in resolved
        THEN mapping[fullname]
        ELSE NoTypeInfo

\* the names of the synthetic attributes of a declaration whose type cannot be
\* resolved now
UnresolvableAttributes(d) ==
    LET model == ModelOf(d) IN
    IF model = None THEN {}
    ELSE
      { model.auto_field.attname : x \in
          { y \in {1} : /\ model.auto_field # None
                        /\ model.auto_field.attname \notin DOMAIN SourceNames(d)
                        /\ model.auto_field.attname \notin DOMAIN InheritedNames(d)
                        /\ get_class_fullname(model.auto_field.klass) \notin resolved } }
      \cup { model.fields[i].attname : i \in
          { j \in ConcreteForeignKeys(model) :
                RelatedPkFullname(model.fields[j]) \notin resolved } }
      \cup { model.managers_map[i].name : i \in
          { j \in Indexes(model.managers_map) :
                TemplateOf(model.managers_map[j]) = NoTypeInfo } }
      \cup { "_default_manager" : x \in
          { y \in {1} : get_class_fullname(model.default_manager) \notin resolved } }
      \cup { model.relations[i].accessor : i \in
          { j \in Indexes(model.relations) :
              /\ model.relations[j].accessor # NoAccessor
              /\ get_field_related_model_cls(model.relations[j]) # None
              /\ \/ get_class_fullname(get_field_related_model_cls(
                        model.relations[j]).klass) \notin resolved
                 \/ /\ model.relations[j].kind # "OneToOneRel"
                    /\ RELATED_MANAGER_CLASS \notin resolved } }
      \cup { "get_" \o model.fields[i].attname \o "_display" : i \in
          { j \in Indexes(model.fields) :
                model.fields[j].choices /\ BUILTINS_STR \notin resolved } }
      \cup { "_meta" : x \in { y \in {1} : OPTIONS_CLASS_FULLNAME \notin resolved } }

-----------------------------------------------------------------------------
(* C1 *)

\* the order the specification gives the eight steps
StepOrder ==
    << "InjectAnyAsBaseForNestedMeta",   \* Nested Options
       "AddDefaultPrimaryKey",           \* Default Primary Key
       "AddRelatedModelsId",             \* Relation Shadow Ids
       "AddManagers",                    \* Managers
       "AddDefaultManagerAttribute",     \* Default Manager
       "AddRelatedManagers",             \* Related Managers
       "AddExtraFieldMethods",           \* Choice/Date Methods
       "AddMetaOptionsAttribute" >>      \* Metadata Handle

\* C1: in every pass, final or not, a process call runs the eight steps once
\* each in the fixed order: the steps run so far are the first pc - 1 steps of
\* the order whether or not one of them raised, and a call that has returned
\* has run all eight.
C1_EightStepsInOrder ==
    /\ pc \in 1..Done
    /\ Len(log) = pc - 1
    /\ \A i \in Indexes(log) : log[i].step = StepOrder[i]
    /\ pc = Done => Len(log) = Len(StepOrder)

\* a call has returned in which the second step raised and all eight ran
C1_Witness ==
    /\ pc = Done
    /\ Len(log) = 8
    /\ log[2].raised

-----------------------------------------------------------------------------
(* C2 *)

\* C2: in a non-final pass every step that met a type it could not resolve
\* raised, and the call has asked for another pass once for each such step.
C2_UnresolvedRequestsPass ==
    ~final =>
        /\ \A i \in Indexes(log) : log[i].missed => log[i].raised
        /\ defers = Cardinality({ i \in Indexes(log) : log[i].missed })

\* a call of a non-final pass has returned after two steps could not resolve
\* a type
C2_Witness ==
    /\ ~final
    /\ pc = Done
    /\ Cardinality({ i \in Indexes(log) : log[i].missed }) >= 2
    /\ defers >= 2

-----------------------------------------------------------------------------
(* C3 *)

\* C3: in the final pass a call asks for no further pass; the diagnostics of
\* the pass are all for foreign keys whose related model does not exist; the
\* call goes on after a step that raised; and when it has returned, no
\* attribute whose type cannot be resolved has been synthesized.
C3_FinalPassTolerates ==
    final =>
        /\ defers = 0
        /\ Len(log) = pc - 1
        /\ \A i \in Indexes(errors) :
              errors[i].pass = pass =>
                 \E d \in 1..NDecls :
                    /\ Decls[d] = errors[i].decl
                    /\ ModelOf(d) # None
                    /\ \E j \in MissingForeignKeys(ModelOf(d)) :
                          ModelOf(d).fields[j].name = errors[i].field
        /\ pc = Done =>
              \A name \in UnresolvableAttributes(cur) : ~Synthesized(cur, name)

\* a call of the final pass has returned in which a step raised and a step
\* skipped an item, with attributes left unresolvable
C3_Witness ==
    /\ final
    /\ pc = Done
    /\ \E i \in Indexes(log) : log[i].raised
    /\ \E i \in Indexes(log) : log[i].missed /\ ~log[i].raised
    /\ UnresolvableAttributes(cur) # {}

-----------------------------------------------------------------------------
(* C4 *)

\* every fullname a step may look up for a declaration
Dependencies(d) ==
    LET model == ModelOf(d) IN
    IF model = None THEN {}
    ELSE
      { get_class_fullname(model.auto_field.klass) : x \in
            { y \in {1} : model.auto_field # None } }
      \cup { RelatedPkFullname(model.fields[i]) : i \in ConcreteForeignKeys(model) }
      \cup { get_class_fullname(model.managers_map[i].klass) :
                i \in Indexes(model.managers_map) }
      \cup { get_class_fullname(model.default_manager) }
      \cup { get_class_fullname(get_field_related_model_cls(model.relations[i]).klass) :
                i \in { j \in Indexes(model.relations) :
                          /\ model.relations[j].accessor # NoAccessor
                          /\ get_field_related_model_cls(model.relations[j]) # None } }
      \cup { RELATED_MANAGER_CLASS, BUILTINS_STR, OPTIONS_CLASS_FULLNAME }

\* C4: when every dependency of a declaration was resolved during the previous
\* pass already, the call of this pass leaves the symbol table as the call of
\* the previous pass left it, and forges no type.
C4_SecondRunChangesNothing ==
    ( /\ pass > 1
      /\ pc = Done
      /\ Dependencies(cur) \subseteq Universe
      /\ Dependencies(cur) \cap prevUnresolved = {} )
    => /\ names[cur] = prevNames[cur]
       /\ forges = 0

-----------------------------------------------------------------------------
(* C5 *)

\* the Relation Shadow Ids step of this call gets as far as field i: the pass
\* is final, or the identity-field type of every concrete foreign key before
\* it can be resolved
FieldReached(model, i) ==
    \/ final
    \/ \A j \in ConcreteForeignKeys(model) :
          j < i => RelatedPkFullname(model.fields[j]) \in resolved

\* where the diagnostic for a field belongs: the field's node if it has one
DiagnosticSite(d, field) ==
    IF /\ field.name \in DOMAIN SourceNames(d)
       /\ SourceNames(d)[field.name].node # "None"
    THEN field.name ELSE "<class>"

\* what the claim says of the foreign key at position i of the current model
GracefulFailure(model, i) ==
    LET field == model.fields[i]
        reported == ErrorsInPass(Decls[cur], field.name, pass)
    IN  /\ Cardinality(reported) = 1
        /\ \A e \in reported : errors[e].ctx = DiagnosticSite(cur, field)
        /\ field.attname \in DOMAIN names[cur]
        /\ names[cur][field.attname].type = AnyType
        /\ Len(log) = pc - 1

\* C5 as stated: once the Relation Shadow Ids step of a call has run, every
\* foreign key whose related model does not exist has exactly one diagnostic
\* of this call, at its site, and a fully dynamic shadow attribute.
C5_AsStated ==
    (pc > 3 /\ CurModel # None) =>
        \A i \in MissingForeignKeys(CurModel) : GracefulFailure(CurModel, i)

\* C5 (amended): the same for every such foreign key the step gets as far as;
\* the steps after it run, and so do the foreign keys after it.
C5_GracefulRelationFailure ==
    (pc > 3 /\ CurModel # None) =>
        /\ \A i \in MissingForeignKeys(CurModel) :
              FieldReached(CurModel, i) => GracefulFailure(CurModel, i)
        /\ \A i \in MissingForeignKeys(CurModel), j \in ConcreteForeignKeys(CurModel) :
              ( /\ FieldReached(CurModel, j)
                /\ i < j
                /\ RelatedPkFullname(CurModel.fields[j]) \in resolved )
              => Synthesized(cur, CurModel.fields[j].attname)

\* a call has returned in which a foreign key without a related model was
\* followed by one that got its shadow attribute
C5_Witness ==
    /\ pc = Done
    /\ CurModel # None
    /\ \E i \in MissingForeignKeys(CurModel), j \in ConcreteForeignKeys(CurModel) :
          /\ i < j
          /\ GracefulFailure(CurModel, i)
          /\ errors[CHOOSE e \in ErrorsInPass(Decls[cur], CurModel.fields[i].name, pass) :
                        TRUE].ctx = CurModel.fields[i].name
          /\ Synthesized(cur, CurModel.fields[j].attname)

-----------------------------------------------------------------------------
(* C6 *)

\* C6: over the whole run, whatever the number of passes, a foreign key whose
\* related model does not exist has at most one diagnostic, and exactly one
\* once a call that reaches it has returned.
C6_OneDiagnosticPerRun ==
    \A d \in 1..NDecls :
        ModelOf(d) # None =>
            \A i \in MissingForeignKeys(ModelOf(d)) :
                Cardinality(ErrorsInRun(Decls[d], ModelOf(d).fields[i].name)) <= 1

-----------------------------------------------------------------------------
(* C7 *)

\* the Managers step of this call gets as far as manager i: the pass is final,
\* or the class of every manager before it can be resolved
ManagerReached(model, i) ==
    \/ final
    \/ \A j \in Indexes(model.managers_map) :
          j < i => get_class_fullname(model.managers_map[j].klass) \in resolved

\* manager i of the current model is one the Managers step of this call has
\* to specialize: its name was a symbol of the declaration before the step and
\* its template has a generic manager instantiated with a placeholder among
\* its bases
ToSpecialize(model, i) ==
    LET manager == model.managers_map[i] IN
    /\ ManagerReached(model, i)
    /\ TemplateOf(manager) # NoTypeInfo
    /\ manager.name \in DOMAIN before
    /\ has_any_parametrized_manager_as_base(forged, TypeInfoRef(TemplateOf(manager)))

\* the manager attribute has the forged type of that name, instantiated with
\* the current model
SpecializedAs(model, i, forged_name) ==
    /\ <<ModuleName, forged_name>> \in DOMAIN forged
    /\ names[cur][model.managers_map[i].name] =
           Symbol(Instance(<<ModuleName, forged_name>>, <<ModelInstance(cur)>>), "Var")

\* C7 as stated: right after the Managers step, such a manager has the forged
\* type named <ModelName><ManagerClassName>.
C7_AsStated ==
    (pc = 5 /\ CurModel # None) =>
        \A i \in Indexes(CurModel.managers_map) :
            ToSpecialize(CurModel, i) =>
                SpecializedAs(CurModel, i,
                    CurModel.name \o rsplit_last(TemplateOf(CurModel.managers_map[i])))

\* C7 (amended): right after the Managers step, such a manager has the forged
\* type named <ModelName>_<ManagerClassName>, with an underscore between the
\* model's name and the name of the template class.
C7_ForgedTypeName ==
    (pc = 5 /\ CurModel # None) =>
        \A i \in Indexes(CurModel.managers_map) :
            ToSpecialize(CurModel, i) =>
                SpecializedAs(CurModel, i,
                    CurModel.name \o "_" \o
                        rsplit_last(TemplateOf(CurModel.managers_map[i])))

\* the Managers step has just specialized a manager of the current model
C7_Witness ==
    /\ pc = 5
    /\ CurModel # None
    /\ \E i \in Indexes(CurModel.managers_map) :
          /\ ToSpecialize(CurModel, i)
          /\ forges > 0
          /\ names[cur][CurModel.managers_map[i].name] # before[CurModel.managers_map[i].name]

-----------------------------------------------------------------------------
(* C8 and C9 *)

\* <<forged fullname, template fullname, declaration>> for every type the
\* Managers step can forge
ForgePairs ==
    { <<<<ModuleName, ModelOf(d).name \o "_" \o rsplit_last(t)>>, t, d>> :
        d \in { e \in 1..NDecls : ModelOf(e) # None },
        t \in { get_class_fullname(MyManagerCls), get_class_fullname(SubManagerCls),
                get_class_fullname(ManagerCls), RealManagerFullname } }

Forged == { p \in ForgePairs : p[1] \in DOMAIN forged }

\* C8: no forged type has a generic manager instantiated with the placeholder
\* left among its ancestors, and every base of the template that is not one is
\* a base of the forged type unchanged.
C8_AncestorsSpecialized ==
    \A p \in Forged :
        LET new == forged[p[1]]
            template == StaticInfo(p[2])
        IN  /\ \A base \in iter_bases(forged, p[1]) : ~is_any_parametrized_manager(base)
            /\ Len(new.bases) = Len(template.bases)
            /\ \A i \in Indexes(template.bases) :
                  ~is_any_parametrized_manager(template.bases[i])
                      => new.bases[i] = template.bases[i]

\* C9: a forged type has the member names of its template; each method of the
\* template is on it with the forged type instantiated with the model as
\* receiver, each variable is on it bound to the forged type, any other member
\* is on it as it is; and the template is the class the host holds.
C9_MembersCopied ==
    \A p \in Forged :
        LET new == forged[p[1]]
            template == StaticInfo(p[2])
        IN  /\ DOMAIN new.names = DOMAIN template.names
            /\ \A n \in DOMAIN template.names :
                  LET old == template.names[n] IN
                  CASE old.kind = "FuncDef" ->
                          new.names[n] =
                              Member("FuncDef", old.type, p[1],
                                     Instance(p[1], <<ModelInstance(p[3])>>))
                    [] old.kind = "Var" ->
                          new.names[n] = Member("Var", old.type, p[1], old.self_type)
                    [] OTHER -> new.names[n] = old
            /\ p[2] \notin DOMAIN forged
            /\ InfoRec(forged, p[2]) = template

\* a type has been forged from a template with a method, a variable and a
\* member of another kind
C9_Witness ==
    \E p \in Forged :
        /\ \E n \in DOMAIN StaticInfo(p[2]).names : StaticInfo(p[2]).names[n].kind = "FuncDef"
        /\ \E n \in DOMAIN StaticInfo(p[2]).names : StaticInfo(p[2]).names[n].kind = "Var"
        /\ \E n \in DOMAIN StaticInfo(p[2]).names : StaticInfo(p[2]).names[n].kind = "TypeInfo"

-----------------------------------------------------------------------------
(* C10 *)

\* the symbol the Default Primary Key step has to add
PrimaryKeySymbol(auto_field) ==
    Symbol(Instance(get_class_fullname(auto_field.klass),
                    <<get_field_descriptor_types(
                          TypeInfoRef(get_class_fullname(auto_field.klass)), FALSE)[1],
                      get_field_descriptor_types(
                          TypeInfoRef(get_class_fullname(auto_field.klass)), FALSE)[2]>>),
           "Var")

\* the model has an automatic identity field and the declaration had no
\* readable member of its name before the step
NeedsPrimaryKey(model) ==
    /\ model.auto_field # None
    /\ model.auto_field.attname \notin DOMAIN before
    /\ model.auto_field.attname \notin DOMAIN InheritedNames(cur)

\* C10: right after the Default Primary Key step: if the model needed the
\* attribute and the identity-field type is resolvable, the table is the table
\* before the step plus that one attribute, typed as the identity-field type
\* with the descriptor types of a non-nullable field; if the type is not
\* resolvable the step raised and the table is as before; if the model did not
\* need the attribute the step did not raise and the table is as before.
C10_PrimaryKeySynthesis ==
    (pc = 3 /\ CurModel # None) =>
        IF NeedsPrimaryKey(CurModel)
        THEN IF get_class_fullname(CurModel.auto_field.klass) \in resolved
             THEN /\ ~log[2].raised
                  /\ DOMAIN names[cur] = DOMAIN before \cup {CurModel.auto_field.attname}
                  /\ names[cur][CurModel.auto_field.attname] =
                         PrimaryKeySymbol(CurModel.auto_field)
                  /\ \A n \in DOMAIN before : names[cur][n] = before[n]
             ELSE /\ log[2].raised
                  /\ names[cur] = before
        ELSE /\ ~log[2].raised
             /\ names[cur] = before

\* the step has just added the attribute in a second pass, after raising in
\* the first
C10_Witness ==
    /\ pc = 3
    /\ pass = 2
    /\ CurModel # None
    /\ NeedsPrimaryKey(CurModel)
    /\ get_class_fullname(CurModel.auto_field.klass) \in prevUnresolved
    /\ names[cur][CurModel.auto_field.attname] = PrimaryKeySymbol(CurModel.auto_field)

-----------------------------------------------------------------------------
(* C11 *)

\* the symbol of a synthesized method
MethodSymbol(args, return_type) ==
    Symbol([kind |-> "Callable", args |-> args, ret |-> return_type], "FuncDef")

DisplayName(field) == "get_" \o field.attname \o "_display"

NextByName(field) == "get_next_by_" \o field.attname

PreviousByName(field) == "get_previous_by_" \o field.attname

HasChoices(field) == field.choices

IsNonNullableDate(field) ==
    field.kind \in {"DateField", "DateTimeField"} /\ ~field.null

\* the names of the methods the Choice/Date Methods step owes a model
FieldMethodNames(model) ==
    { DisplayName(model.fields[i]) :
          i \in { j \in Indexes(model.fields) : HasChoices(model.fields[j]) } }
    \cup UNION { { NextByName(model.fields[i]), PreviousByName(model.fields[i]) } :
          i \in { j \in Indexes(model.fields) : IsNonNullableDate(model.fields[j]) } }

-----------------------------------------------------------------------------
(* C12 *)

RelatedFullname(relation) ==
    get_class_fullname(get_field_related_model_cls(relation).klass)

\* positions of the reverse relations with an accessor name and a related model
AccessibleRelations(model) ==
    { i \in Indexes(model.relations) :
        /\ model.relations[i].accessor # NoAccessor
        /\ get_field_related_model_cls(model.relations[i]) # None }

\* every type the Related Managers step looks up for a relation is resolvable
RelationResolvable(relation) ==
    /\ RelatedFullname(relation) \in resolved
    /\ relation.kind # "OneToOneRel" => RELATED_MANAGER_CLASS \in resolved

\* the Related Managers step of this call gets as far as relation i
RelationReached(model, i) ==
    \/ final
    \/ \A j \in AccessibleRelations(model) :
          j < i => RelationResolvable(model.relations[j])

\* the attribute the kind of a relation calls for
RelatedAttribute(relation) ==
    IF relation.kind = "OneToOneRel"
    THEN Symbol(Instance(RelatedFullname(relation), <<>>), "Var")
    ELSE Symbol(Instance(RELATED_MANAGER_CLASS,
                         <<Instance(RelatedFullname(relation), <<>>)>>), "Var")

\* C12 as stated: once the Related Managers step of a call has run, every
\* reverse relation with an accessor name whose related model is resolvable
\* has its attribute, of the type its kind calls for.
C12_AsStated ==
    (pc > 6 /\ CurModel # None) =>
        \A i \in AccessibleRelations(CurModel) :
            RelatedFullname(CurModel.relations[i]) \in resolved =>
                /\ CurModel.relations[i].accessor \in DOMAIN names[cur]
                /\ names[cur][CurModel.relations[i].accessor] =
                       RelatedAttribute(CurModel.relations[i])

\* C12 (amended): once the Related Managers step of a call has run, every
\* reverse relation with an accessor name that the step got as far as and
\* whose types are all resolvable (the related model and, unless the relation
\* is one-to-one, the generic related-manager type) has its attribute: the
\* related model itself for a one-to-one relation, the generic related-manager
\* type instantiated with the related model for a many-to-one or many-to-many
\* relation; an accessor that has been synthesized never has another type; and
\* the step adds nothing but the accessors of such relations, so nothing for a
\* relation without an accessor name.
C12_RelatedManagerKindDispatch ==
    (pc > 6 /\ CurModel # None) =>
        /\ \A i \in AccessibleRelations(CurModel) :
              LET relation == CurModel.relations[i] IN
              /\ (RelationReached(CurModel, i) /\ RelationResolvable(relation)) =>
                    /\ relation.accessor \in DOMAIN names[cur]
                    /\ names[cur][relation.accessor] = RelatedAttribute(relation)
              /\ relation.accessor \in DOMAIN names[cur] =>
                    names[cur][relation.accessor] = RelatedAttribute(relation)
        /\ NoAccessor \notin DOMAIN names[cur]
        /\ pc = 7 =>
              /\ DOMAIN names[cur] \ DOMAIN before \subseteq
                    { CurModel.relations[i].accessor : i \in AccessibleRelations(CurModel) }
              /\ \A n \in DOMAIN before : names[cur][n] # before[n] =>
                    \E i \in AccessibleRelations(CurModel) :
                        n = CurModel.relations[i].accessor

\* the step has just given a model its one-to-one, many-to-one and
\* many-to-many accessors, and the model has a relation without accessor name
C12_Witness ==
    /\ pc = 7
    /\ CurModel # None
    /\ \E i, j, k, l \in Indexes(CurModel.relations) :
          /\ CurModel.relations[i].kind = "OneToOneRel"
          /\ CurModel.relations[j].kind = "ManyToOneRel"
          /\ CurModel.relations[k].kind = "ManyToManyRel"
          /\ {i, j, k} \subseteq AccessibleRelations(CurModel)
          /\ \A m \in {i, j, k} :
                /\ CurModel.relations[m].accessor \in DOMAIN names[cur] \ DOMAIN before
                /\ names[cur][CurModel.relations[m].accessor] =
                       RelatedAttribute(CurModel.relations[m])
          /\ CurModel.relations[l].accessor = NoAccessor

-----------------------------------------------------------------------------
(* C14 *)

\* C14: in a non-final pass, when the step run last raised, the symbol table
\* of the declaration is the table from before that step.
C14_FailingStepLeavesNoEffect ==
    (~final /\ Len(log) > 0 /\ log[Len(log)].raised) => names[cur] = before

-----------------------------------------------------------------------------
(* C16 *)

\* the generated-name to real-name mapping remembered on the base of a
\* manager's class, as far as it can be read now
RememberedMapping(manager) ==
    LET base == manager.klass.base0 IN
    IF base \in resolved /\ "from_queryset_managers" \in DOMAIN StaticInfo(base).metadata
    THEN StaticInfo(base).metadata["from_queryset_managers"]
    ELSE <<>>

\* positions of the managers the Managers step of this call gets as far as,
\* whose own type cannot be resolved and whose name is in the mapping
UnresolvedGenerated(model) ==
    { i \in Indexes(model.managers_map) :
        /\ ManagerReached(model, i)
        /\ get_class_fullname(model.managers_map[i].klass) \notin resolved
        /\ get_class_fullname(model.managers_map[i].klass) \in
               DOMAIN RememberedMapping(model.managers_map[i]) }

RealName(manager) == RememberedMapping(manager)[get_class_fullname(manager.klass)]

\* the step left the name as it was before it
LeftAlone(name) ==
    /\ (name \in DOMAIN names[cur]) = (name \in DOMAIN before)
    /\ name \in DOMAIN before => names[cur][name] = before[name]

\* the manager attribute has been synthesized from a template: the template
\* instantiated with the model when the name was new to the declaration, the
\* type forged from the template when the name was there and the template has
\* a placeholder-parametrized generic manager among its bases
SynthesizedFrom(model, i, template) ==
    LET name == model.managers_map[i].name IN
    IF name \notin DOMAIN before
    THEN /\ name \in DOMAIN names[cur]
         /\ names[cur][name] = Symbol(Instance(template, <<ModelInstance(cur)>>), "Var")
    ELSE IF has_any_parametrized_manager_as_base(forged, TypeInfoRef(template))
    THEN SpecializedAs(model, i, model.name \o "_" \o rsplit_last(template))
    ELSE LeftAlone(name)

\* the diagnostics of this pass for the current declaration are all for
\* foreign keys whose related model does not exist
NoOtherDiagnostic(model) ==
    \A e \in Indexes(errors) :
        (errors[e].decl = Decls[cur] /\ errors[e].pass = pass) =>
            \E j \in MissingForeignKeys(model) : model.fields[j].name = errors[e].field

\* what the claim says of manager i: the lookup by the real name decides
AlternateLookup(model, i) ==
    LET manager == model.managers_map[i] IN
    /\ IF RealName(manager) \in resolved
       THEN SynthesizedFrom(model, i, RealName(manager))
       ELSE LeftAlone(manager.name)
    /\ NoOtherDiagnostic(model)

\* C16 as stated: right after the Managers step of any pass, every manager
\* whose own type cannot be resolved and whose name is in the mapping has been
\* synthesized from the real template if that can be resolved, and skipped
\* without diagnostic if not.
C16_AsStated ==
    (pc = 5 /\ CurModel # None) =>
        \A i \in UnresolvedGenerated(CurModel) : AlternateLookup(CurModel, i)

\* C16 (amended): the same in the final pass only; in a non-final pass the
\* step raises at such a manager and leaves its name alone, whether or not
\* the real template can be resolved.
C16_AlternateLookupInFinalPass ==
    (pc = 5 /\ CurModel # None) =>
        \A i \in UnresolvedGenerated(CurModel) :
            IF final
            THEN AlternateLookup(CurModel, i)
            ELSE /\ log[4].raised
                 /\ LeftAlone(CurModel.managers_map[i].name)

\* the Managers step of a final pass has just synthesized a manager from the
\* real template its generated class is mapped to
C16_Witness ==
    /\ pc = 5
    /\ final
    /\ CurModel # None
    /\ \E i \in UnresolvedGenerated(CurModel) :
          /\ RealName(CurModel.managers_map[i]) \in resolved
          /\ SynthesizedFrom(CurModel, i, RealName(CurModel.managers_map[i]))
          /\ ~LeftAlone(CurModel.managers_map[i].name)

-----------------------------------------------------------------------------
(* C17 *)

\* the declarations no model is found for
Unbacked == { d \in 1..NDecls : ModelOf(d) = None }

\* what process leaves alone on a declaration without a model: the symbol
\* table, the diagnostics, the classes of the module and the pass requests
UntouchedBySteps(d) ==
    /\ names[d] = SourceNames(d)
    /\ \A e \in Indexes(errors) : errors[e].decl # Decls[d]
    /\ cur = d =>
          /\ defers = 0
          /\ forges = 0
          /\ \A i \in Indexes(log) : ~log[i].raised /\ ~log[i].missed

\* C17 as stated: on a declaration without a model no step does anything: the
\* symbol table, the nested options, the diagnostics and the pass requests are
\* as they were.
C17_AsStated ==
    \A d \in Unbacked : UntouchedBySteps(d) /\ ~metaAny[d]

\* C17 (amended): on a declaration without a model every step but the
\* Permissive Nested Options step does nothing; that step marks the nested
\* options permissive when the declaration has nested options, model or not.
C17_NoModelNoSynthesis ==
    \A d \in Unbacked :
        /\ UntouchedBySteps(d)
        /\ metaAny[d] => HasNestedMeta(d)
        /\ (cur = d /\ pc > 1 /\ HasNestedMeta(d)) => metaAny[d]

\* a second call on a declaration without a model, with nested options, has
\* returned
C17_Witness ==
    /\ cur \in Unbacked
    /\ HasNestedMeta(cur)
    /\ pass = 2
    /\ pc = Done
    /\ Len(log) = Len(initializers)
    /\ metaAny[cur]
    /\ names[cur] = SourceNames(cur)
    /\ Universe \ resolved # {}

-----------------------------------------------------------------------------
(* C18 *)

\* C18: no step of the call has called addAttribute with a name that was in
\* the declaration's symbol table.
C18_AddAttributeOnFreshName ==
    \A i \in Indexes(log) : log[i].overwrote = {}

\* the names of the managers of a model whose template, as far as it can be
\* found now, has a placeholder-parametrized generic manager among its bases
SpecializableManagers(model) ==
    { model.managers_map[i].name : i \in
        { j \in Indexes(model.managers_map) :
            /\ TemplateOf(model.managers_map[j]) # NoTypeInfo
            /\ has_any_parametrized_manager_as_base(
                   forged, TypeInfoRef(TemplateOf(model.managers_map[j]))) } }

\* C18 (amended): the Default Primary Key, Default Manager and Metadata Handle
\* steps call addAttribute only with a name that is not in the declaration's
\* symbol table, and so does the Managers step except where it replaces the
\* symbol of a manager by the type forged for it; the Relation Shadow Ids and
\* Related Managers steps call it without looking, with the attribute name of
\* a foreign key or the accessor name of a reverse relation.
C18_CheckedCallers ==
    \A i \in Indexes(log) :
        IF CurModel = None THEN log[i].overwrote = {}
        ELSE
          CASE log[i].step \in {"AddDefaultPrimaryKey", "AddDefaultManagerAttribute",
                                 "AddMetaOptionsAttribute"} ->
                  log[i].overwrote = {}
            [] log[i].step = "AddManagers" ->
                  log[i].overwrote \subseteq SpecializableManagers(CurModel)
            [] log[i].step = "AddRelatedModelsId" ->
                  log[i].overwrote \subseteq
                      { CurModel.fields[j].attname : j \in
                          MissingForeignKeys(CurModel) \cup ConcreteForeignKeys(CurModel) }
            [] log[i].step = "AddRelatedManagers" ->
                  log[i].overwrote \subseteq
                      { CurModel.relations[j].accessor : j \in AccessibleRelations(CurModel) }
            [] OTHER -> log[i].overwrote = {}

\* a call of a second pass has returned in which the Metadata Handle step
\* added its attribute for the first time, the Default Manager step found its
\* attribute in the table, and the Managers step replaced a symbol
C18_Witness ==
    /\ pass = 2
    /\ pc = Done
    /\ CurModel # None
    /\ "_meta" \in DOMAIN names[cur] \ DOMAIN prevNames[cur]
    /\ "_default_manager" \in DOMAIN prevNames[cur]
    /\ log[4].overwrote # {}
    /\ log[3].overwrote # {}

-----------------------------------------------------------------------------
(* C19 *)

\* positions of the foreign keys of a model whose related model is abstract
AbstractForeignKeys(model) ==
    { i \in Indexes(model.fields) :
        /\ model.fields[i].kind = "ForeignKey"
        /\ get_field_related_model_cls(model.fields[i]) # None
        /\ get_field_related_model_cls(model.fields[i]).abstract }

\* the shadow attribute of a foreign key to a concrete model: the related
\* model's identity-field type with the oracle's pair for the nullability of
\* the foreign key itself
ShadowSymbol(field) ==
    LET pk == RelatedPkFullname(field)
        sg == get_field_descriptor_types(TypeInfoRef(pk), field.null)
    IN  Symbol(Instance(pk, <<sg[1], sg[2]>>), "Var")

\* C19: once the Relation Shadow Ids step of a call has run: a foreign key to
\* an abstract model has no shadow attribute and no diagnostic; a foreign key
\* to a concrete model has no diagnostic, its shadow attribute, whenever it is
\* there, is typed as the related model's identity-field type with the pair
\* for the foreign key's own nullability, and it is there whenever the step
\* got as far as the field and that type can be resolved.
C19_ShadowIdTyping ==
    (pc > 3 /\ CurModel # None) =>
        /\ \A i \in AbstractForeignKeys(CurModel) :
              /\ CurModel.fields[i].attname \notin DOMAIN names[cur]
              /\ ErrorsInRun(Decls[cur], CurModel.fields[i].name) = {}
        /\ \A i \in ConcreteForeignKeys(CurModel) :
              LET field == CurModel.fields[i] IN
              /\ ErrorsInRun(Decls[cur], field.name) = {}
              /\ field.attname \in DOMAIN names[cur] =>
                    names[cur][field.attname] = ShadowSymbol(field)
              /\ (FieldReached(CurModel, i) /\ RelatedPkFullname(field) \in resolved) =>
                    field.attname \in DOMAIN names[cur]

\* the step has just added the shadow attributes of a nullable and of a
\* non-nullable foreign key, to models with different identity-field types,
\* and passed over a foreign key to an abstract model between them
C19_Witness ==
    /\ pc = 4
    /\ CurModel # None
    /\ \E i, k \in ConcreteForeignKeys(CurModel), j \in AbstractForeignKeys(CurModel) :
          /\ i < j /\ j < k
          /\ ~CurModel.fields[i].null
          /\ CurModel.fields[k].null
          /\ RelatedPkFullname(CurModel.fields[i]) # RelatedPkFullname(CurModel.fields[k])
          /\ {CurModel.fields[i].attname, CurModel.fields[k].attname}
                 \subseteq DOMAIN names[cur] \ DOMAIN before
          /\ names[cur][CurModel.fields[k].attname] = ShadowSymbol(CurModel.fields[k])
          /\ CurModel.fields[j].attname \notin DOMAIN names[cur]

-----------------------------------------------------------------------------
(* C20 *)

\* C20: in the final pass, whatever could not be resolved for the other items,
\* once the Relation Shadow Ids step has run every foreign key to a concrete
\* model whose identity-field type can be resolved has its shadow attribute
\* and every foreign key without a related model has its dynamic one; right
\* after the Managers step every manager whose template can be found has been
\* synthesized from it; and once the Related Managers step has run every
\* reverse relation with an accessor name whose types can be resolved has its
\* attribute.
C20_FinalPassSkipsOnlyTheItem ==
    (final /\ CurModel # None) =>
        /\ pc > 3 =>
              /\ \A i \in ConcreteForeignKeys(CurModel) :
                    RelatedPkFullname(CurModel.fields[i]) \in resolved =>
                        /\ CurModel.fields[i].attname \in DOMAIN names[cur]
                        /\ names[cur][CurModel.fields[i].attname] =
                               ShadowSymbol(CurModel.fields[i])
              /\ \A i \in MissingForeignKeys(CurModel) :
                    /\ CurModel.fields[i].attname \in DOMAIN names[cur]
                    /\ names[cur][CurModel.fields[i].attname] = Symbol(AnyType, "Var")
        /\ pc = 5 =>
              \A i \in Indexes(CurModel.managers_map) :
                  TemplateOf(CurModel.managers_map[i]) # NoTypeInfo =>
                      SynthesizedFrom(CurModel, i, TemplateOf(CurModel.managers_map[i]))
        /\ pc > 6 =>
              \A i \in AccessibleRelations(CurModel) :
                  RelationResolvable(CurModel.relations[i]) =>
                      /\ CurModel.relations[i].accessor \in DOMAIN names[cur]
                      /\ names[cur][CurModel.relations[i].accessor] =
                             RelatedAttribute(CurModel.relations[i])

\* a foreign key of the current model was skipped and a later one has its
\* shadow attribute
ForeignKeySkipped ==
    \E i, j \in ConcreteForeignKeys(CurModel) :
        /\ i < j
        /\ RelatedPkFullname(CurModel.fields[i]) \notin resolved
        /\ CurModel.fields[i].attname \notin DOMAIN names[cur]
        /\ CurModel.fields[j].attname \in DOMAIN names[cur]
        /\ names[cur][CurModel.fields[j].attname] = ShadowSymbol(CurModel.fields[j])

\* a manager of the current model was skipped and a later one was synthesized
ManagerSkipped ==
    \E i, j \in Indexes(CurModel.managers_map) :
        /\ i < j
        /\ TemplateOf(CurModel.managers_map[i]) = NoTypeInfo
        /\ CurModel.managers_map[i].name \in DOMAIN names[cur] =>
               names[cur][CurModel.managers_map[i].name] =
                   SourceNames(cur)[CurModel.managers_map[i].name]
        /\ TemplateOf(CurModel.managers_map[j]) # NoTypeInfo
        /\ Synthesized(cur, CurModel.managers_map[j].name)

\* a reverse relation of the current model was skipped and a later one has
\* its attribute
RelationSkipped ==
    \E i, j \in AccessibleRelations(CurModel) :
        /\ i < j
        /\ ~RelationResolvable(CurModel.relations[i])
        /\ CurModel.relations[i].accessor \notin DOMAIN names[cur]
        /\ CurModel.relations[j].accessor \in DOMAIN names[cur]
        /\ names[cur][CurModel.relations[j].accessor] =
               RelatedAttribute(CurModel.relations[j])

\* a call of a first and final pass has returned in which a foreign key was
\* skipped and a later one was not, while every manager and relation was
\* synthesized
C20_Witness ==
    /\ final
    /\ pass = 1
    /\ pc = Done
    /\ CurModel # None
    /\ ForeignKeySkipped
    /\ \E i \in Indexes(log) : log[i].step = "AddRelatedModelsId" /\ log[i].missed
                                                              /\ ~log[i].raised

\* the same for a manager
C20_ManagerWitness ==
    final /\ pass = 1 /\ pc = Done /\ CurModel # None /\ ManagerSkipped

\* the same for a reverse relation
C20_RelationWitness ==
    final /\ pass = 1 /\ pc = Done /\ CurModel # None /\ RelationSkipped

=============================================================================
